---------------------------- MODULE Spec2Model ----------------------------
(***************************************************************************)
(* Model of openspectra/openspecrtra_tools.py: RegionOfInterest (pixel and *)
(* geo coordinates, iteration cursor), OpenSpectraRegionTools (text        *)
(* export), OpenSpectraBandTools / BandStatistics (noise cleanup and       *)
(* per-band statistics) and OpenSpectraHistogramTools.                     *)
(*                                                                         *)
(* Conventions.  Python's None is the empty tuple <<>> and a present value *)
(* v is <<v>>.  A raised exception is a record whose field "kind" names    *)
(* the exception.  Floating-point numbers that the model keeps exact are   *)
(* integers (every value used is exactly representable in float64).        *)
(***************************************************************************)
EXTENDS Integers, Sequences, FiniteSets, TLC

VARIABLES
    \* ---- RegionOfInterest ----
    area,            \* constructor argument: sequence of <<x, y>> display points
    x_zoom_factor,   \* constructor argument, a rational <<numerator, denominator>>
    y_zoom_factor,   \* constructor argument, a rational <<numerator, denominator>>
    x_points,        \* self.__x_points (int16 array)
    y_points,        \* self.__y_points (int16 array)
    index,           \* self.__index
    iter_limit,      \* self.__iter_limit
    map_info,        \* self.__map_info (None or a MapInfo)
    x_coords,        \* self.__x_coords (None or an array)
    y_coords,        \* self.__y_coords (None or an array)
    visited,         \* points seen by the pass in progress (one per __next__ that returned)
    exhausted,       \* TRUE when the last __next__ of the pass raised StopIteration
    passes,          \* number of __iter__ calls made so far, counted up to MaxPasses
    read,            \* None, or what the four per-position accessors returned in the step just taken
    \* ---- OpenSpectraRegionTools ----
    tool,            \* None before construction, else the tool's fields or the raised error
    out,             \* None, or the lines the save_region call just made wrote to the file
    save_from,       \* None, or <<cursor position at that call, include_bands>>
    \* ---- OpenSpectraBandTools / BandStatistics ----
    bands,           \* the array file.bands(lines, samples) returns: [dtype, data]
    clean,           \* None, or the result of __bogus_noise_cleanup
    stats,           \* None, or the result (or raised error) of band_statistics
    \* ---- OpenSpectraHistogramTools ----
    image,           \* the Image handed to the constructor
    htool,           \* the constructed tool's __type, or the raised error
    hist,            \* None, or the result (or raised error) of the last histogram call
    hcall,           \* None, or <<method, band>> of the last histogram call
    data_reads       \* number of image.raw_data / image.image_data calls made so far

regionVars == <<area, x_zoom_factor, y_zoom_factor, x_points, y_points, index,
                iter_limit, map_info, x_coords, y_coords, visited, exhausted, passes, read>>
toolVars   == <<tool, out, save_from>>
bandVars   == <<bands, clean, stats>>
histVars   == <<image, htool, hist, hcall, data_reads>>
vars       == <<regionVars, toolVars, bandVars, histVars>>

None == <<>>
Some(v) == <<v>>

\* ------------------------------------------------------------------------
\* Bounds of the model
\* ------------------------------------------------------------------------
MaxPoints == 2       \* longest area (number of rows) enumerated
MaxPasses == 2       \* the count of passes is kept up to this number

\* numpy.int16
Int16Min == -32768
Int16Max == 32767
Int16Mod == 65536

\* Display-space points offered to the constructor.  They include negative
\* and odd coordinates (floor differs from truncation) and coordinates
\* whose quotient leaves the int16 range.
AreaPoints == { <<0, 1>>, <<-4, 7>>, <<40000, -32769>> }

\* Pairs <<x_zoom_factor, y_zoom_factor>> of zoom factors n/d; all are
\* exactly representable binary fractions, so the float64 quotient x / zoom
\* has the floor of the exact one.
ZoomFactors == { << <<1, 1>>, <<1, 1>> >>, << <<3, 2>>, <<1, 2>> >> }

\* OpenSpectraHeader.MapInfo values (an external collaborator's data).
MapInfos ==
    { [ x_reference_pixel |-> 1, y_reference_pixel |-> 1,
        x_pixel_size |-> 2, y_pixel_size |-> 3,
        x_zero_coordinate |-> 100, y_zero_coordinate |-> 200,
        projection_name |-> "UTM", projection_zone |-> Some("13"),
        projection_area |-> Some("North"), datum |-> "WGS-84" ],
      [ x_reference_pixel |-> 3, y_reference_pixel |-> 2,
        x_pixel_size |-> 5, y_pixel_size |-> 7,
        x_zero_coordinate |-> -50, y_zero_coordinate |-> 40,
        projection_name |-> "Geographic Lat/Lon", projection_zone |-> None,
        projection_area |-> None, datum |-> "NAD-27" ] }

OptMapInfos == { None } \cup { Some(m) : m \in MapInfos }

\* the remaining constructor arguments
RegionArgs == [ image_height |-> 10, image_width |-> 10,
                image_name |-> "img", display_name |-> "r1" ]

SeqsUpTo(S, n) == UNION { [1..k -> S] : k \in 0..n }

\* ------------------------------------------------------------------------
\* RegionOfInterest
\* ------------------------------------------------------------------------

\* variant: the quotient rounded toward zero instead of floored
TruncQuot(x, z) ==
    IF x * z[2] >= 0 THEN (x * z[2]) \div z[1] ELSE -((-(x * z[2])) \div z[1])

\* np.floor(x / zoom) for zoom = z[1] / z[2] > 0
FloorQuot(x, z) == (x * z[2]) \div z[1]

InInt16(v) == Int16Min <= v /\ v <= Int16Max

Wrap16(v) == ((v - Int16Min) % Int16Mod) + Int16Min

\* .astype(np.int16) of an integral float64.  A value that fits is kept.  The
\* cast of a value that does not fit is undefined in C: builds wrap modulo
\* 2^16 or saturate.
AsInt16(v) ==
    IF InInt16(v) THEN { v }
    ELSE { Wrap16(v), IF v > 0 THEN Int16Max ELSE Int16Min }

\* the arrays  np.floor(area[:, c] / zoom).astype(np.int16)  can be
RECURSIVE PixelPrefixes(_, _, _, _)
PixelPrefixes(a, c, z, k) ==
    IF k = 0 THEN { << >> }
    ELSE { Append(p, v) : p \in PixelPrefixes(a, c, z, k - 1),
                          v \in AsInt16(FloorQuot(a[k][c], z)) }

PixelArrays(a, c, z) == PixelPrefixes(a, c, z, Len(a))

\* variant: the 1-based reference pixel used without the shift to 0-based
GeoXUnshifted(px, m) == (px - m.x_reference_pixel) * m.x_pixel_size + m.x_zero_coordinate

\* __calculate_coords: the pair <<x_coords, y_coords>> after the call.  The
\* map-info values are floats, so the int16 pixels are promoted to float64
\* and the arithmetic on the whole numbers used here is exact.
GeoX(px, m) == (px - (m.x_reference_pixel - 1)) * m.x_pixel_size + m.x_zero_coordinate
GeoY(py, m) == m.y_zero_coordinate - (py - (m.y_reference_pixel - 1)) * m.y_pixel_size

CalculateCoords(mi, xp, yp, xc, yc) ==
    IF mi # None
    THEN << Some([i \in 1..Len(xp) |-> GeoX(xp[i], mi[1])]),
            Some([i \in 1..Len(yp) |-> GeoY(yp[i], mi[1])]) >>
    ELSE << xc, yc >>

\* Python's a[i] on an array of length n: negative i counts from the end,
\* an i outside -n .. n-1 raises IndexError.
Value(v)   == [kind |-> "value", v |-> v]
NoValue    == [kind |-> "None", v |-> 0]
IndexError == [kind |-> "IndexError", v |-> 0]

\* variant: a negative index raises instead of counting from the end
GetItemNoWrap(a, i) ==
    IF i >= 0 /\ i < Len(a) THEN Value(a[i + 1]) ELSE IndexError

GetItem(a, i) ==
    IF i >= 0 /\ i < Len(a) THEN Value(a[i + 1])
    ELSE IF i < 0 /\ i >= -Len(a) THEN Value(a[Len(a) + i + 1])
    ELSE IndexError

x_point(xp, idx) == GetItem(xp, idx)
y_point(yp, idx) == GetItem(yp, idx)
x_coordinate(xc, idx) == IF xc # None THEN GetItem(xc[1], idx) ELSE NoValue
y_coordinate(yc, idx) == IF yc # None THEN GetItem(yc[1], idx) ELSE NoValue

\* the state after RegionOfInterest.__init__
InitRegion ==
    /\ area \in SeqsUpTo(AreaPoints, MaxPoints)
    /\ \E z \in ZoomFactors : x_zoom_factor = z[1] /\ y_zoom_factor = z[2]
    /\ x_points \in PixelArrays(area, 1, x_zoom_factor)
    /\ y_points \in PixelArrays(area, 2, y_zoom_factor)
    /\ index = -1
    /\ iter_limit = Len(area) - 1
    /\ map_info \in OptMapInfos
    /\ x_coords = CalculateCoords(map_info, x_points, y_points, None, None)[1]
    /\ y_coords = CalculateCoords(map_info, x_points, y_points, None, None)[2]
    /\ visited = << >>
    /\ exhausted = FALSE
    /\ passes = 0
    /\ read = None

\* variant: the cursor advances two positions
NextIndexSkips(idx, limit) == IF idx >= limit THEN idx ELSE idx + 2

\* __next__: the cursor after the call, and whether StopIteration was raised
NextIndex(idx, limit) == IF idx >= limit THEN idx ELSE idx + 1
NextStops(idx, limit) == idx >= limit

\* variant: __iter__ leaves the cursor where it is
IterIndexKept(idx) == idx

\* __iter__: the cursor after the call
IterIndex(idx) == -1

\* the point a caller of __next__ sees through x_point() / y_point()
PointAt(xp, yp, idx) == << x_point(xp, idx), y_point(yp, idx) >>

CountPass(n) == IF n < MaxPasses THEN n + 1 ELSE n

Iter ==
    /\ index' = IterIndex(index)
    /\ visited' = << >>
    /\ exhausted' = FALSE
    /\ passes' = CountPass(passes)
    /\ read' = None /\ out' = None /\ save_from' = None
    /\ UNCHANGED <<area, x_zoom_factor, y_zoom_factor, x_points, y_points,
                   iter_limit, map_info, x_coords, y_coords, tool>>

RegionNext ==
    /\ index' = NextIndex(index, iter_limit)
    /\ exhausted' = NextStops(index, iter_limit)
    /\ visited' = IF NextStops(index, iter_limit) THEN visited
                  ELSE Append(visited, PointAt(x_points, y_points, index'))
    /\ read' = None /\ out' = None /\ save_from' = None
    /\ UNCHANGED <<area, x_zoom_factor, y_zoom_factor, x_points, y_points,
                   iter_limit, map_info, x_coords, y_coords, passes, tool>>

\* a caller reads x_point(), y_point(), x_coordinate(), y_coordinate()
ReadAccessors ==
    /\ read' = Some([ x_point |-> x_point(x_points, index),
                      y_point |-> y_point(y_points, index),
                      x_coordinate |-> x_coordinate(x_coords, index),
                      y_coordinate |-> y_coordinate(y_coords, index) ])
    /\ out' = None /\ save_from' = None
    /\ UNCHANGED <<area, x_zoom_factor, y_zoom_factor, x_points, y_points, index,
                   iter_limit, map_info, x_coords, y_coords, visited, exhausted, passes, tool>>

\* set_map_info
SetMapInfo(m) ==
    /\ map_info' = m
    /\ x_coords' = CalculateCoords(m, x_points, y_points, x_coords, y_coords)[1]
    /\ y_coords' = CalculateCoords(m, x_points, y_points, x_coords, y_coords)[2]
    /\ read' = None /\ out' = None /\ save_from' = None
    /\ UNCHANGED <<area, x_zoom_factor, y_zoom_factor, x_points, y_points, index,
                   iter_limit, visited, exhausted, passes, tool>>

\* ------------------------------------------------------------------------
\* OpenSpectraRegionTools
\* ------------------------------------------------------------------------

\* the projection descriptor, as the sequence of its space-separated parts
Projection(m) ==
    << m.projection_name >>
      \o (IF m.projection_zone # None THEN << m.projection_zone[1] >> ELSE << >>)
      \o (IF m.projection_area # None THEN << m.projection_area[1] >> ELSE << >>)
      \o << m.datum >>

\* number of fields of __output_format, and __data_header
OutputFields(mi) == IF mi # None THEN 4 ELSE 2
DataHeader(mi) == IF mi # None THEN "sample,line,x_coordinate,y_coordinate" ELSE "sample,line"

\* OpenSpectraRegionTools.__init__: the constructed tool, or the error raised.
\* self.__map_info.projection_name() is evaluated before the test for None.
RegionToolsInit(mi) ==
    IF mi = None
    THEN [ kind |-> "AttributeError", map_info |-> mi, projection |-> << >>,
           output_fields |-> 0, data_header |-> "" ]
    ELSE [ kind |-> "ok", map_info |-> mi, projection |-> Projection(mi[1]),
           output_fields |-> OutputFields(mi), data_header |-> DataHeader(mi) ]

NewRegionTools ==
    /\ tool' = Some(RegionToolsInit(map_info))
    /\ read' = None /\ out' = None /\ save_from' = None
    /\ UNCHANGED <<area, x_zoom_factor, y_zoom_factor, x_points, y_points, index,
                   iter_limit, map_info, x_coords, y_coords, visited, exhausted, passes>>

\* __get_data_header and __get_output_format: include_bands changes nothing
GetDataHeader(t, include_bands) == t.data_header
GetOutputFormat(t, include_bands) == t.output_fields

\* str.format of one data line; a None argument prints as "None"
Cell(r) == IF r.kind = "value" THEN Some(r.v) ELSE None

FormatRow(fields, xp, yp, xc, yc) ==
    IF fields = 4 THEN << "row", xp, yp, Cell(xc), Cell(yc) >>
    ELSE << "row", xp, yp >>

\* the body of  for r in self.__region  at cursor position idx; the sum of
\* an int16 scalar and the Python int 1 is not narrowed to 16 bits
RowAt(fields, xp, yp, xc, yc, idx) ==
    FormatRow(fields, x_point(xp, idx).v + 1, y_point(yp, idx).v + 1,
              x_coordinate(xc, idx), y_coordinate(yc, idx))

\* the loop  for r in self.__region: out.write(...)  from cursor position idx
RECURSIVE WriteRows(_, _, _, _, _, _, _, _)
WriteRows(fields, xp, yp, xc, yc, idx, limit, acc) ==
    IF NextStops(idx, limit) THEN [ lines |-> acc, index |-> idx ]
    ELSE WriteRows(fields, xp, yp, xc, yc, NextIndex(idx, limit), limit,
                   Append(acc, RowAt(fields, xp, yp, xc, yc, NextIndex(idx, limit))))

HeaderLines(t) ==
    << << "name:", RegionArgs.display_name >>,
       << "description:", RegionArgs.image_name >>,
       << "image width:", RegionArgs.image_width >>,
       << "image height:", RegionArgs.image_height >>,
       << "projection:", t.projection >>,
       << "data:" >> >>

\* save_region
SaveRegion(include_bands) ==
    /\ tool # None /\ tool[1].kind = "ok"
    /\ LET t == tool[1]
           w == WriteRows(GetOutputFormat(t, include_bands), x_points, y_points,
                          x_coords, y_coords, IterIndex(index), iter_limit, << >>)
       IN /\ out' = Some(HeaderLines(t) \o << << GetDataHeader(t, include_bands) >> >> \o w.lines)
          /\ index' = w.index
          /\ visited' = [ i \in 1..Len(w.lines) |-> PointAt(x_points, y_points, i - 1) ]
    /\ exhausted' = TRUE
    /\ passes' = CountPass(passes)
    /\ save_from' = Some(<< index, include_bands >>)
    /\ read' = None
    /\ UNCHANGED <<area, x_zoom_factor, y_zoom_factor, x_points, y_points,
                   iter_limit, map_info, x_coords, y_coords, tool>>

InitTool == tool = None /\ out = None /\ save_from = None

\* placeholders for the components a specification leaves out
IdleBands == bands = None /\ clean = None /\ stats = None
IdleHist  == image = None /\ htool = None /\ hist = None /\ hcall = None /\ data_reads = 0

\* ------------------------------------------------------------------------
\* Specification of a RegionOfInterest and its export tool
\* ------------------------------------------------------------------------
Init == InitRegion /\ InitTool /\ IdleBands /\ IdleHist

Next ==
    \/ Iter /\ UNCHANGED <<bandVars, histVars>>
    \/ RegionNext /\ UNCHANGED <<bandVars, histVars>>
    \/ ReadAccessors /\ UNCHANGED <<bandVars, histVars>>
    \/ (\E m \in OptMapInfos : SetMapInfo(m)) /\ UNCHANGED <<bandVars, histVars>>
    \/ NewRegionTools /\ UNCHANGED <<bandVars, histVars>>
    \/ (\E b \in BOOLEAN : SaveRegion(b)) /\ UNCHANGED <<bandVars, histVars>>

Spec == Init /\ [][Next]_vars


\* ------------------------------------------------------------------------
\* OpenSpectraBandTools and BandStatistics
\* ------------------------------------------------------------------------

\* float64 values: a rational n/d (d > 0), NaN, +Inf (n = 1) or -Inf (n = -1)
Num(n)  == [k |-> "num", n |-> n, d |-> 1]
Rat(n, d) == [k |-> "num", n |-> n, d |-> d]
NaN     == [k |-> "nan", n |-> 0, d |-> 1]
PosInf  == [k |-> "inf", n |-> 1, d |-> 1]
NegInf  == [k |-> "inf", n |-> -1, d |-> 1]

\* IEEE comparisons: every comparison with NaN is false
Lt(a, b) ==
    /\ a.k # "nan" /\ b.k # "nan"
    /\ \/ a.k = "num" /\ b.k = "num" /\ a.n * b.d < b.n * a.d
       \/ a = NegInf /\ b # NegInf
       \/ b = PosInf /\ a # PosInf

FEq(a, b) ==
    /\ a.k # "nan" /\ b.k # "nan"
    /\ \/ a.k = "num" /\ b.k = "num" /\ a.n * b.d = b.n * a.d
       \/ a.k = "inf" /\ a = b

\* One pixel's spectrum over two spectral bands.  Floating-point rows hold
\* values of [0, 1], values outside it, NaN and both infinities; the finite
\* values of the arrays are whole numbers (d = 1).
FloatRows == { << Num(0), Num(1) >>, << Num(1), Num(0) >>, << Num(1), NaN >>,
               << Num(2), Num(2) >>, << PosInf, Num(1) >>, << Num(-1), NegInf >> }
IntRows   == { << Num(0), Num(1) >>, << Num(7), Num(-2) >> }
MaxPixels == 3       \* most pixels (rows) of a band array

NonEmptySeqs(S, n) == UNION { [1..k -> S] : k \in 1..n }

BandArrays ==
    { [dtype |-> "float", data |-> a] : a \in NonEmptySeqs(FloatRows, MaxPixels) }
      \cup { [dtype |-> "int", data |-> a] : a \in NonEmptySeqs(IntRows, MaxPixels) }

Rows(data) == 1..Len(data)
Cols(data) == 1..Len(data[1])
Elements(data) == { data[i][j] : i \in Rows(data), j \in Cols(data) }

\* ndarray.min() / ndarray.max() of a set of values: NaN propagates
NpMin(S) == IF NaN \in S THEN NaN ELSE CHOOSE m \in S : \A x \in S : ~Lt(x, m)
NpMax(S) == IF NaN \in S THEN NaN ELSE CHOOSE m \in S : \A x \in S : ~Lt(m, x)

NoMask(data) == [ i \in Rows(data) |-> [ j \in Cols(data) |-> FALSE ] ]

\* ma.masked_invalid: NaN and the infinities are masked
MaskedInvalid(data) ==
    [ i \in Rows(data) |-> [ j \in Cols(data) |-> data[i][j].k \in { "nan", "inf" } ] ]

\* ma.masked_outside(x, lo, hi): masked where x < lo or x > hi, on top of the
\* mask x already has
MaskedOutside(data, mask, lo, hi) ==
    [ i \in Rows(data) |-> [ j \in Cols(data) |->
        mask[i][j] \/ Lt(data[i][j], lo) \/ Lt(hi, data[i][j]) ] ]

\* the test of line 299:  min() == nan or max() == nan or min() == inf or max() == inf
HasInvalid(data) ==
    \/ FEq(NpMin(Elements(data)), NaN) \/ FEq(NpMax(Elements(data)), NaN)
    \/ FEq(NpMin(Elements(data)), PosInf) \/ FEq(NpMax(Elements(data)), PosInf)

\* __bogus_noise_cleanup
BogusNoiseCleanup(b) ==
    IF b.dtype = "float"
    THEN LET m == IF HasInvalid(b.data) THEN MaskedInvalid(b.data) ELSE NoMask(b.data)
         IN [ dtype |-> b.dtype, data |-> b.data, masked |-> TRUE,
              mask |-> MaskedOutside(b.data, m, Num(0), Num(1)) ]
    ELSE [ dtype |-> b.dtype, data |-> b.data, masked |-> FALSE, mask |-> NoMask(b.data) ]

\* the values of spectral band j that take part in a reduction along axis 0
Taking(c, j) == { i \in Rows(c.data) : ~c.mask[i][j] }
TakingValues(c, j) == { c.data[i][j] : i \in Taking(c, j) }

RECURSIVE SumOver(_, _, _)
SumOver(c, j, I) ==
    IF I = {} THEN 0
    ELSE LET i == CHOOSE x \in I : TRUE IN c.data[i][j].n + SumOver(c, j, I \ {i})

RECURSIVE SumSqOver(_, _, _)
SumSqOver(c, j, I) ==
    IF I = {} THEN 0
    ELSE LET i == CHOOSE x \in I : TRUE
         IN c.data[i][j].n * c.data[i][j].n + SumSqOver(c, j, I \ {i})

Masked == [k |-> "masked", n |-> 0, d |-> 1]

\* mean(0), min(0), max(0) of band j; a band with every value masked is masked
ColMean(c, j) ==
    LET V == TakingValues(c, j) IN
    IF V = {} THEN Masked
    ELSE IF NaN \in V \/ (PosInf \in V /\ NegInf \in V) THEN NaN
    ELSE IF PosInf \in V THEN PosInf
    ELSE IF NegInf \in V THEN NegInf
    ELSE Rat(SumOver(c, j, Taking(c, j)), Cardinality(Taking(c, j)))

ColMin(c, j) == IF TakingValues(c, j) = {} THEN Masked ELSE NpMin(TakingValues(c, j))
ColMax(c, j) == IF TakingValues(c, j) = {} THEN Masked ELSE NpMax(TakingValues(c, j))

\* std(0) of band j, kept as its square, the variance
\*   (count * sum of squares - (sum)^2) / count^2
ColVar(c, j) ==
    LET V == TakingValues(c, j)
        I == Taking(c, j)
        cnt == Cardinality(I)
    IN IF V = {} THEN Masked
       ELSE IF \E x \in V : x.k # "num" THEN NaN
       ELSE Rat(cnt * SumSqOver(c, j, I) - SumOver(c, j, I) * SumOver(c, j, I), cnt * cnt)

\* mean + std and mean - std, kept as the terms of the sum
PlusStd(mean, var)  == [ op |-> "mean+sqrt(var)", mean |-> mean, var |-> var ]
MinusStd(mean, var) == [ op |-> "mean-sqrt(var)", mean |-> mean, var |-> var ]

\* Bands.__init__(self, bands, labels) has no default for labels ...
BandsInitParams == << "bands", "labels" >>
\* ... and BandStatistics.__init__ calls super().__init__(bands)
SuperInitArgs == << "bands" >>

\* a call with positional arguments only raises TypeError unless it supplies
\* every parameter
RaisesTypeError(params, args) == Len(args) # Len(params)

\* BandStatistics.__init__
BandStatisticsInit(c) ==
    IF RaisesTypeError(BandsInitParams, SuperInitArgs)
    THEN [ kind |-> "TypeError", mean |-> << >>, min |-> << >>, max |-> << >>,
           var |-> << >>, mean_plus |-> << >>, mean_minus |-> << >> ]
    ELSE [ kind |-> "ok",
           mean |-> [ j \in Cols(c.data) |-> ColMean(c, j) ],
           min  |-> [ j \in Cols(c.data) |-> ColMin(c, j) ],
           max  |-> [ j \in Cols(c.data) |-> ColMax(c, j) ],
           var  |-> [ j \in Cols(c.data) |-> ColVar(c, j) ],
           mean_plus  |-> [ j \in Cols(c.data) |-> PlusStd(ColMean(c, j), ColVar(c, j)) ],
           mean_minus |-> [ j \in Cols(c.data) |-> MinusStd(ColMean(c, j), ColVar(c, j)) ] ]

\* band_statistics
BandStatisticsCall ==
    /\ clean' = Some(BogusNoiseCleanup(bands[1]))
    /\ stats' = Some(BandStatisticsInit(BogusNoiseCleanup(bands[1])))
    /\ UNCHANGED bands

\* spectral_plot(line, sample): the spectrum of one pixel, cleaned
SpectralPlot(line) ==
    /\ clean' = Some(BogusNoiseCleanup([ dtype |-> bands[1].dtype,
                                         data |-> << bands[1].data[line] >> ]))
    /\ stats' = None
    /\ UNCHANGED bands

InitBands == bands \in { Some(b) : b \in BandArrays } /\ clean = None /\ stats = None

IdleRegion ==
    /\ area = << >> /\ x_zoom_factor = << 1, 1 >> /\ y_zoom_factor = << 1, 1 >>
    /\ x_points = << >> /\ y_points = << >> /\ index = -1 /\ iter_limit = -1
    /\ map_info = None /\ x_coords = None /\ y_coords = None
    /\ visited = << >> /\ exhausted = FALSE /\ passes = 0 /\ read = None

\* ------------------------------------------------------------------------
\* Specification of the band tools
\* ------------------------------------------------------------------------
NextBands ==
    \/ BandStatisticsCall /\ UNCHANGED <<regionVars, toolVars, histVars>>
    \/ (\E line \in Rows(bands[1].data) : SpectralPlot(line))
          /\ UNCHANGED <<regionVars, toolVars, histVars>>

InitBandsOnly == IdleRegion /\ InitTool /\ InitBands /\ IdleHist

SpecBands == InitBandsOnly /\ [][NextBands]_vars

\* ------------------------------------------------------------------------
\* OpenSpectraHistogramTools
\* ------------------------------------------------------------------------
MaxReads == 2        \* histogram calls are explored until this many data reads

BandArgs == { None, Some("red"), Some("green"), Some("blue") }

\* pixel data of one channel
ChannelData == [1..2 -> { 0, 3, 9 }]

\* Images: a GreyscaleImage holds one channel, an RGBImage three; anything
\* else is neither.  The raw data is integer or floating point, the
\* display-adjusted data 8-bit integer.
Images ==
    { [ type |-> "greyscale", dtype |-> t, raw |-> [ b \in { "grey" } |-> c ],
        adjusted |-> [ b \in { "grey" } |-> << 0, 255 >> ] ] :
          t \in { "int", "float" }, c \in ChannelData }
      \cup
    { [ type |-> "rgb", dtype |-> t,
        raw |-> [ b \in { "red", "green", "blue" } |->
                    IF b = "red" THEN c ELSE IF b = "green" THEN << 3, 3 >> ELSE << 0, 9 >> ],
        adjusted |-> [ b \in { "red", "green", "blue" } |->
                    IF b = "red" THEN << 0, 255 >> ELSE << 17, 128 >> ] ] :
          t \in { "int", "float" }, c \in ChannelData }
      \cup
    { [ type |-> "other", dtype |-> "int", raw |-> [ b \in { "grey" } |-> << 0, 0 >> ],
        adjusted |-> [ b \in { "grey" } |-> << 0, 0 >> ] ] }

\* OpenSpectraHistogramTools.__init__: self.__type, or the error raised
HistogramToolsInit(img) ==
    IF img.type = "greyscale" THEN "greyscale"
    ELSE IF img.type = "rgb" THEN "rgb"
    ELSE "TypeError"

\* Image.raw_data(band): a single-channel image ignores the band
ImageRawData(img, band) ==
    IF img.type = "greyscale" THEN img.raw["grey"] ELSE img.raw[band[1]]

\* Image.image_data(band): the display-adjusted data the image holds (8-bit
\* integers)
ImageData(img, band) ==
    IF img.type = "greyscale" THEN img.adjusted["grey"] ELSE img.adjusted[band[1]]

SeqMin(d) == CHOOSE m \in { d[i] : i \in 1..Len(d) } : \A i \in 1..Len(d) : m <= d[i]
SeqMax(d) == CHOOSE m \in { d[i] : i \in 1..Len(d) } : \A i \in 1..Len(d) : m >= d[i]

\* __get_hist_data
GetHistData(dtype, data) ==
    IF dtype = "int"
    THEN [ kind |-> "ok", x_data |-> << SeqMin(data), SeqMax(data) >>, y_data |-> data,
           bins |-> Some(SeqMax(data) - SeqMin(data)) ]
    ELSE IF dtype = "float"
    THEN [ kind |-> "ok", x_data |-> << SeqMin(data), SeqMax(data) >>, y_data |-> data,
           bins |-> << "FloatBins" >> ]
    ELSE [ kind |-> "TypeError", x_data |-> << >>, y_data |-> << >>, bins |-> None ]

\* variant: the band is demanded of every image
MissingBandAlways(type, band) == band = None

\* the test  self.__type == "rgb" and band is None
MissingBand(type, band) == type = "rgb" /\ band = None

HistError(kind) ==
    [ kind |-> kind, x_data |-> << >>, y_data |-> << >>, bins |-> None,
      title |-> << >>, color |-> "", limits |-> None, reads |-> 0 ]

\* raw_histogram: the HistogramPlotData returned, or the error raised;
\* reads counts the calls of image.raw_data made on the way
RawHistogram(type, img, band) ==
    IF MissingBand(type, band) THEN HistError("ValueError")
    ELSE LET h == GetHistData(img.dtype, ImageRawData(img, band)) IN
         IF h.kind # "ok" THEN [ HistError(h.kind) EXCEPT !.reads = 1 ]
         ELSE [ kind |-> "ok", x_data |-> h.x_data, y_data |-> h.y_data, bins |-> h.bins,
                title |-> << "Raw ", "label", band >>, color |-> "r",
                limits |-> Some(<< "low_cutoff", "high_cutoff", band >>), reads |-> 1 ]

\* adjusted_histogram
AdjustedHistogram(type, img, band) ==
    IF MissingBand(type, band) THEN HistError("ValueError")
    ELSE LET h == GetHistData("int", ImageData(img, band)) IN
         IF h.kind # "ok" THEN [ HistError(h.kind) EXCEPT !.reads = 1 ]
         ELSE [ kind |-> "ok", x_data |-> h.x_data, y_data |-> h.y_data, bins |-> h.bins,
                title |-> << "Adjusted ", "label", band >>, color |-> "b",
                limits |-> None, reads |-> 1 ]

CallRawHistogram(band) ==
    /\ htool[1] # "TypeError" /\ data_reads < MaxReads
    /\ hist' = Some(RawHistogram(htool[1], image[1], band))
    /\ hcall' = Some(<< "raw_histogram", band >>)
    /\ data_reads' = data_reads + RawHistogram(htool[1], image[1], band).reads
    /\ UNCHANGED <<image, htool>>

CallAdjustedHistogram(band) ==
    /\ htool[1] # "TypeError" /\ data_reads < MaxReads
    /\ hist' = Some(AdjustedHistogram(htool[1], image[1], band))
    /\ hcall' = Some(<< "adjusted_histogram", band >>)
    /\ data_reads' = data_reads + AdjustedHistogram(htool[1], image[1], band).reads
    /\ UNCHANGED <<image, htool>>

InitHist ==
    /\ image \in { Some(i) : i \in Images }
    /\ htool = Some(HistogramToolsInit(image[1]))
    /\ hist = None /\ hcall = None /\ data_reads = 0

\* ------------------------------------------------------------------------
\* Specification of the histogram tools
\* ------------------------------------------------------------------------
NextHist ==
    \/ (\E b \in BandArgs : CallRawHistogram(b)) /\ UNCHANGED <<regionVars, toolVars, bandVars>>
    \/ (\E b \in BandArgs : CallAdjustedHistogram(b)) /\ UNCHANGED <<regionVars, toolVars, bandVars>>

InitHistOnly == IdleRegion /\ InitTool /\ IdleBands /\ InitHist

SpecHist == InitHistOnly /\ [][NextHist]_vars

\* ------------------------------------------------------------------------
\* Properties of the RegionOfInterest and of the export tool
\* ------------------------------------------------------------------------
NumPoints == Len(x_points)
OnPoint == index >= 0 /\ index < NumPoints /\ ~exhausted

\* C1: after set_map_info with an absent map-info (and for a region that never
\* had one) x_coordinate() and y_coordinate(), read on a point, return "no
\* value", never a coordinate computed from an earlier map-info.
C1_NoGeoWithoutMapInfo ==
    (map_info = None /\ read # None /\ OnPoint)
        => (read[1].x_coordinate = NoValue /\ read[1].y_coordinate = NoValue)

\* C2: for a region without map-info the export tool is constructed without
\* error, and save_region writes the six header lines, the column header
\* "sample,line" and one line  pixel_x+1,pixel_y+1  per point.
C2_ExportWithoutMapInfo ==
    /\ (tool # None /\ tool[1].map_info = None) => tool[1].kind = "ok"
    /\ (tool # None /\ tool[1].map_info = None /\ out # None) =>
          out[1] = << << "name:", "r1" >>, << "description:", "img" >>,
                      << "image width:", 10 >>, << "image height:", 10 >>,
                      << "projection:", tool[1].projection >>, << "data:" >>,
                      << "sample,line" >> >>
                   \o [ i \in 1..NumPoints |-> << "row", x_points[i] + 1, y_points[i] + 1 >> ]

\* C5: a pass started by __iter__ at any moment begins before the first point
\* and has visited, after each advance, exactly the points 0..index in index
\* order; exhaustion is signalled only once all N points have been visited.
C5_PassVisitsInOrder ==
    /\ index \in -1..(NumPoints - 1)
    /\ Len(visited) = index + 1
    /\ \A i \in 1..Len(visited) : visited[i] = << Value(x_points[i]), Value(y_points[i]) >>
    /\ exhausted => Len(visited) = NumPoints

\* C5 witness: a second pass over a two-point region ran to exhaustion
C5_Witness ==
    /\ passes = 2 /\ exhausted /\ NumPoints = 2 /\ Len(visited) = 2
    /\ visited[1] # visited[2] /\ out = None

\* C6 as stated: read with the cursor before the first point or after
\* exhaustion, x_point() and y_point() raise an error and no accessor returns
\* the coordinate of some point.
C6_AccessorsRaiseOffPoint ==
    (read # None /\ ~OnPoint) =>
        /\ read[1].x_point.kind = "IndexError"
        /\ read[1].y_point.kind = "IndexError"
        /\ read[1].x_coordinate.kind # "value"
        /\ read[1].y_coordinate.kind # "value"

\* C6 amended: on a point the accessors return that point's values; read
\* before the first advance or after exhaustion they return the values of the
\* LAST point when the region has points, and raise an index error only when
\* it has none; the geo accessors return "no value" when no geo coordinates
\* are stored.
LastOr(a, i) == IF i >= 0 THEN a[i + 1] ELSE a[Len(a)]

C6_AccessorsOffPointReadLast ==
    read # None =>
        /\ NumPoints = 0 =>
              /\ read[1].x_point = IndexError /\ read[1].y_point = IndexError
              /\ read[1].x_coordinate = (IF x_coords = None THEN NoValue ELSE IndexError)
              /\ read[1].y_coordinate = (IF y_coords = None THEN NoValue ELSE IndexError)
        /\ NumPoints > 0 =>
              /\ read[1].x_point = Value(LastOr(x_points, index))
              /\ read[1].y_point = Value(LastOr(y_points, index))
              /\ read[1].x_coordinate =
                    (IF x_coords = None THEN NoValue ELSE Value(LastOr(x_coords[1], index)))
              /\ read[1].y_coordinate =
                    (IF y_coords = None THEN NoValue ELSE Value(LastOr(y_coords[1], index)))

\* C6 witness: a read before the first advance returned the last of two
\* different points
C6_Witness ==
    /\ read # None /\ index = -1 /\ NumPoints = 2 /\ x_points[1] # x_points[2]
    /\ read[1].x_point = Value(x_points[2]) /\ read[1].x_coordinate.kind = "value"

\* C7: while a map-info is attached (at construction or by set_map_info) the
\* geo coordinates of every point are
\*   geo_x = (pixel_x - (rx - 1)) * sx + zx,  geo_y = zy - (pixel_y - (ry - 1)) * sy
\* for that map-info, and no step changes pixel_x, pixel_y or the point count.
C7_GeoOfAttached ==
    map_info # None =>
        LET m == map_info[1] IN
        /\ x_coords = Some([ i \in 1..NumPoints |->
              (x_points[i] - (m.x_reference_pixel - 1)) * m.x_pixel_size + m.x_zero_coordinate ])
        /\ y_coords = Some([ i \in 1..NumPoints |->
              m.y_zero_coordinate - (y_points[i] - (m.y_reference_pixel - 1)) * m.y_pixel_size ])

C7_GeoFollowsMapInfo ==
    /\ []C7_GeoOfAttached
    /\ [][ x_points' = x_points /\ y_points' = y_points /\ iter_limit' = iter_limit ]_vars

\* C7 witness: the region carries a map-info other than the one its export
\* tool was built with, so set_map_info replaced a present map-info
C7_Witness ==
    /\ map_info # None /\ tool # None /\ tool[1].kind = "ok" /\ tool[1].map_info # map_info
    /\ NumPoints = 2 /\ x_coords[1][1] # x_coords[1][2]

\* C8: with map-info present save_region writes six header lines, the column
\* header with the geo columns and exactly N data lines in point order, the
\* i-th being (pixel_x[i]+1, pixel_y[i]+1, geo_x[i], geo_y[i]), whatever the
\* cursor position at the call and whatever include_bands.
C8_ExportWithMapInfo ==
    (out # None /\ map_info # None) =>
        /\ Len(out[1]) = 7 + NumPoints
        /\ << out[1][1][1], out[1][2][1], out[1][3][1], out[1][4][1], out[1][5][1], out[1][6][1] >>
              = << "name:", "description:", "image width:", "image height:", "projection:", "data:" >>
        /\ out[1][7] = << "sample,line,x_coordinate,y_coordinate" >>
        /\ \A i \in 1..NumPoints :
              out[1][7 + i] = << "row", x_points[i] + 1, y_points[i] + 1,
                                 Some(x_coords[1][i]), Some(y_coords[1][i]) >>

\* C8 witness: a two-point region saved with include_bands from a cursor
\* resting on its first point
C8_Witness ==
    /\ out # None /\ map_info # None /\ NumPoints = 2
    /\ save_from = Some(<< 0, TRUE >>) /\ Len(out[1]) = 9

\* C10: the region has one pixel_x and one pixel_y per row of the area, each
\* an int16, and wherever floor(x / zoom) fits in an int16 the stored value q
\* is that floor:  q <= x / zoom < q + 1.
IsFloorOf(q, x, z) == q * z[1] <= x * z[2] /\ x * z[2] < (q + 1) * z[1]
FloorFits(x, z) == Int16Min * z[1] <= x * z[2] /\ x * z[2] < (Int16Max + 1) * z[1]

C10_PixelIsFloor ==
    /\ Len(x_points) = Len(area) /\ Len(y_points) = Len(area)
    /\ \A i \in 1..Len(area) :
          /\ InInt16(x_points[i]) /\ InInt16(y_points[i])
          /\ FloorFits(area[i][1], x_zoom_factor) => IsFloorOf(x_points[i], area[i][1], x_zoom_factor)
          /\ FloorFits(area[i][2], y_zoom_factor) => IsFloorOf(y_points[i], area[i][2], y_zoom_factor)

\* C10 witness: a negative coordinate whose quotient is not integral
C10_Witness ==
    \E i \in 1..Len(area) :
        /\ area[i][1] < 0 /\ x_points[i] * x_zoom_factor[1] # area[i][1] * x_zoom_factor[2]
        /\ IsFloorOf(x_points[i], area[i][1], x_zoom_factor)

\* ------------------------------------------------------------------------
\* Properties of the band tools
\* ------------------------------------------------------------------------
InUnitRange(x) == x.k = "num" /\ 0 <= x.n /\ x.n <= x.d

\* C3: for a band array without invalid or out-of-range values
\* band_statistics returns, without error, one mean, min, max and std per
\* spectral band, reduced over the pixels, with plus_one_std = mean + std and
\* minus_one_std = mean - std for every band.
C3_StatisticsOfCleanBands ==
    (stats # None /\ \A x \in Elements(bands[1].data) : InUnitRange(x)) =>
        LET st == stats[1]
            B == Cols(bands[1].data)
            P == Cardinality(Rows(bands[1].data))
        IN /\ st.kind = "ok"
           /\ DOMAIN st.mean = B /\ DOMAIN st.min = B /\ DOMAIN st.max = B /\ DOMAIN st.var = B
           /\ \A j \in B :
                 /\ FEq(st.mean[j], Rat(SumOver(bands[1], j, Rows(bands[1].data)), P))
                 /\ st.min[j] \in Elements(bands[1].data) /\ st.max[j] \in Elements(bands[1].data)
                 /\ st.mean_plus[j] = [ op |-> "mean+sqrt(var)", mean |-> st.mean[j], var |-> st.var[j] ]
                 /\ st.mean_minus[j] = [ op |-> "mean-sqrt(var)", mean |-> st.mean[j], var |-> st.var[j] ]

\* C4: the cleanup of a floating-point array masks every NaN, every infinity
\* and every value outside [0.0, 1.0], so none of them takes part in the
\* reductions along the pixel axis; an integer array comes back unchanged and
\* unmasked.
C4_CleanupMasksAnomalies ==
    clean # None =>
        LET c == clean[1] IN
        /\ c.dtype = "float" =>
              \A i \in Rows(c.data), j \in Cols(c.data) :
                  (c.data[i][j].k \in { "nan", "inf" } \/ ~InUnitRange(c.data[i][j]))
                      => (c.mask[i][j] /\ c.data[i][j] \notin TakingValues(c, j))
        /\ c.dtype = "int" =>
              /\ ~c.masked
              /\ \A j \in Cols(c.data) : Taking(c, j) = Rows(c.data)

\* ------------------------------------------------------------------------
\* Properties of the histogram tools
\* ------------------------------------------------------------------------

=============================================================================
